---- MODULE Spec2Model ----
(***************************************************************************)
(* Model of the MegaCloud source resolver of movie-embed.                  *)
(*                                                                         *)
(* The repository holds the extractor in five versions: the one in         *)
(* src/extractors/megacloud.ts ("live") and four earlier ones kept in      *)
(* src/Readme.md ("v1" .. "v4").  A resolution runs one of them; the       *)
(* variable impl says which.  Strings of the page are sequences of         *)
(* one-character strings, so that the regular expressions of the token     *)
(* extractor are matched character by character.                           *)
(***************************************************************************)
EXTENDS Integers, Sequences, FiniteSets, TLC

VARIABLES
    impl,        \* which version of the extractor runs
    url,         \* the argument of MegaCloud.extract
    pc,          \* where the resolution stands (the await it is suspended at)
    keyDocument, \* the JSON document the upstream serves at KEY_URL
    embed,       \* embedIframeURL, the parsed URL (or NoValue)
    page,        \* the response to the page request (or NoValue)
    nonce,       \* nonce / token extracted from the page (or NoValue)
    data,        \* the getSources payload (or NoValue)
    keyData,     \* the response to the key request (or NoValue)
    oracleData,  \* the response to the oracle request (or NoValue)
    extractedData, \* the record extract2 builds
    requests,    \* the HTTP requests issued so far, in order
    strategies,  \* the decryption strategies invoked so far, in order, each
                 \* with its state: "running", "succeeded" or "failed"
    outcome,     \* "pending", "returned" or "threw"
    result,      \* the value MegaCloud.extract returned (or NoValue)
    other,       \* a second call of MegaCloud.extract in the same process,
                 \* suspended at one of its awaits (or NoValue)
    redis,       \* the server's Redis client: "client" or "null"
    redisConnectionAttempts, \* error events counted since the last connect
    memoryCache, \* the in-memory cache: key -> entry (or NoValue)
    redisStore,  \* what the Redis server holds: key -> entry (or NoValue)
    now,         \* Date.now(), in seconds
    call,        \* the last cache call: its arguments and what it returned
    matchIn,     \* the arguments of a call of findBestFlixHQMatch
    matchOut,    \* what the call returned (or NoValue before it)
    cryptIn,     \* a secret, a salt and a plaintext for the salted scheme
    cryptOut,    \* what decryptOpenSSL made of their ciphertext (or NoValue)
    nHtml,       \* input of the token extractor under SpecNonce
    nOut,        \* its output
    nPc          \* "ready" or "done"

vars == <<impl, url, pc, keyDocument, embed, page, nonce, data, keyData,
          oracleData, extractedData,
          requests, strategies, outcome, result, other, redis,
          redisConnectionAttempts, memoryCache, redisStore, now, call,
          matchIn, matchOut, cryptIn, cryptOut, nHtml, nOut, nPc>>

resolverVars == <<impl, url, pc, keyDocument, embed, page, nonce, data,
                  keyData, oracleData, extractedData, requests, strategies, outcome, result>>

nonceVars == <<nHtml, nOut, nPc>>

cacheVars == <<redis, redisConnectionAttempts, memoryCache, redisStore, now, call>>

matchVars == <<matchIn, matchOut>>

cryptVars == <<cryptIn, cryptOut>>

\* what no cache call and no Redis event touches
offCache == <<resolverVars, other, nonceVars, matchVars, cryptVars>>

\* what no step of a resolution touches
offResolver == <<nonceVars, other, cacheVars, matchVars, cryptVars>>

\* null / undefined, and a present value
NoValue == [some |-> FALSE]

Some(v) == [some |-> TRUE, val |-> v]

(***************************************************************************)
(* Characters and the regular expressions of the token extractor           *)
(***************************************************************************)

\* [a-zA-Z0-9], restricted to the characters the model's pages use
Alnum == {"a", "b", "n", "d", "t", "i", "f", "1"}

\* \w of a JavaScript regular expression: [A-Za-z0-9_]
WordChar == Alnum \cup {"_"}

\* the line terminators that "." does not match
LineTerminator == {"\n"}

NONCE_LEN == 48

SEGMENT_LEN == 16

Rep(c, n) == [k \in 1..n |-> c]

\* is the character at position i (1-based) a word character; FALSE outside
IsWordAt(s, i) == i >= 1 /\ i <= Len(s) /\ s[i] \in WordChar

\* \b before position i: exactly one side is a word character
WordBoundary(s, i) == IsWordAt(s, i - 1) # IsWordAt(s, i)

\* \b[a-zA-Z0-9]{n}\b matches starting at position i
RunAt(s, i, n) ==
    /\ WordBoundary(s, i)
    /\ i + n - 1 <= Len(s)
    /\ WordBoundary(s, i + n)
    /\ \A k \in i..(i + n - 1) : s[k] \in Alnum

\* .*? can consume the characters a..b (none when b < a)
DotSpan(s, a, b) == \A k \in a..b : s[k] \notin LineTerminator

Min(S) == CHOOSE x \in S : \A y \in S : x <= y

\* html.match(/\b[a-zA-Z0-9]{48}\b/): the leftmost match, or NoValue
match1(html) ==
    LET starts == {i \in 1..Len(html) : RunAt(html, i, NONCE_LEN)}
    IN  IF starts = {} THEN NoValue
        ELSE Some(SubSeq(html, Min(starts), Min(starts) + NONCE_LEN - 1))

\* html.match(/\b(X)\b.*?\b(X)\b.*?\b(X)\b/) with X = [a-zA-Z0-9]{16}:
\* leftmost start, each lazy gap as short as a complete match allows;
\* the three groups, or NoValue
match2(html) ==
    LET R == {i \in 1..Len(html) : RunAt(html, i, SEGMENT_LEN)}
        Next3(j) == {k \in R : k >= j + SEGMENT_LEN
                               /\ DotSpan(html, j + SEGMENT_LEN, k - 1)}
        Next2(i) == {j \in R : j >= i + SEGMENT_LEN
                               /\ DotSpan(html, i + SEGMENT_LEN, j - 1)
                               /\ Next3(j) # {}}
        S == {i \in R : Next2(i) # {}}
    IN  IF S = {} THEN NoValue
        ELSE LET i == Min(S)
                 j == Min(Next2(i))
                 k == Min(Next3(j))
             IN  Some(<<SubSeq(html, i, i + SEGMENT_LEN - 1),
                        SubSeq(html, j, j + SEGMENT_LEN - 1),
                        SubSeq(html, k, k + SEGMENT_LEN - 1)>>)

\* extractNonce(html): string | null
extractNonce(html) ==
    LET m1 == match1(html)
        m2 == match2(html)
    IN  IF m1.some THEN m1
        ELSE IF m2.some THEN Some(m2.val[1] \o m2.val[2] \o m2.val[3])
        ELSE NoValue

(***************************************************************************)
(* Values of the resolver: URLs, pages, payloads, key documents            *)
(***************************************************************************)

MAIN_URL == "https://videostr.net"

KEY_URL == "https://raw.githubusercontent.com/yogesh-hacker/MegacloudKeys/refs/heads/main/keys.json"

DECODE_URL == "https://script.google.com/macros/s/AKfycbx-yHTwupis_JD0lNzoOnxYcEYeXmJZrg7JeMxYnEZnLBy5V0--UxEvP-y9txHyy1TX9Q/exec"

USER_AGENT == "Mozilla/5.0 (Linux; Android 10; K) AppleWebKit/537.36 (KHTML, like Gecko) Chrome/137.0.0.0 Mobile Safari/537.36"

\* the strings handed to MegaCloud.extract: one that new URL() rejects, one
\* whose path ends in an id, one whose path ends in "/"
Urls ==
    { [text |-> "not a url", valid |-> FALSE, href |-> "", pathname |-> <<>>],
      [text |-> "https://videostr.net/embed-1/v3/e-1/vid1?z=",
       valid |-> TRUE,
       href |-> "https://videostr.net/embed-1/v3/e-1/vid1?z=",
       pathname |-> <<"", "embed-1", "v3", "e-1", "vid1">>],
      [text |-> "https://videostr.net/embed-1/v3/e-1/",
       valid |-> TRUE,
       href |-> "https://videostr.net/embed-1/v3/e-1/",
       pathname |-> <<"", "embed-1", "v3", "e-1", "">>] }

\* new URL(url): the parsed URL, or NoValue when the constructor throws
NewURL(u) ==
    IF u.valid THEN Some([href |-> u.href, pathname |-> u.pathname])
    ELSE NoValue

\* embedIframeURL.pathname.split("/").pop() || "" : pathname as its
\* "/"-separated segments
PathId(e) == IF e.pathname = <<>> THEN "" ELSE e.pathname[Len(e.pathname)]

DataIdOpen == <<"d", "a", "t", "a", "-", "i", "d", "=", "\"">>

\* html.match(/data-id="([^"]+)"/)?.[1]: the group of the leftmost match
fileIdMatch(html) ==
    LET n == Len(DataIdOpen)
        Quote(i) == {q \in (i + n)..Len(html) : html[q] = "\""}
        starts == {i \in 1..Len(html) :
                      /\ i + n - 1 <= Len(html)
                      /\ SubSeq(html, i, i + n - 1) = DataIdOpen
                      /\ Quote(i) # {}
                      /\ Min(Quote(i)) > i + n}
    IN  IF starts = {} THEN NoValue
        ELSE Some(SubSeq(html, Min(starts) + n, Min(Quote(Min(starts))) - 1))

DataId(v) == DataIdOpen \o v \o <<"\"">>

A16 == Rep("a", SEGMENT_LEN)

B16 == Rep("b", SEGMENT_LEN)

N48 == Rep("n", NONCE_LEN)

\* the pages the upstream serves
Pages ==
    { DataId(<<"f", "1">>) \o <<"-">> \o N48,
      DataId(<<"f", "1">>) \o <<"-">> \o A16 \o <<"-">> \o B16 \o <<"-">> \o A16,
      DataId(<<"f", "1">>) \o <<"\n">> \o A16 \o <<"\n">> \o B16 \o <<"\n">> \o A16,
      DataId(<<"f", "1">>),
      DataId(<<>>) \o <<"-">> \o N48,
      <<"-">> \o N48,
      <<"-">> }

PageResponses == {[tag |-> "error"]} \cup {[tag |-> "ok", body |-> h] : h \in Pages}

Track(file, kind) == [file |-> file, kind |-> kind]

TrackLists ==
    { <<>>,
      <<Track("https://cdn/en.vtt", "captions"),
        Track("https://cdn/thumbs.vtt", "thumbnails"),
        Track("https://cdn/fr.vtt", "subtitles")>> }

Src(file, type) == [file |-> file, type |-> type]

SourceLists ==
    { <<>>,
      <<Src("https://cdn/x.m3u8", Some("hls"))>>,
      <<Src("https://cdn/y.m3u8", NoValue), Src("https://cdn/z.mp4", Some("mp4"))>> }

\* the strings a payload carries as its sources
PlainUrl == "https://cdn/p.m3u8"

SourceStrings ==
    {PlainUrl, "ctSalted", "ctSaltedList", "ctSaltedObject", "ctNonce", "ctOpaque"}

SourcesValues ==
    {[tag |-> "absent"]}
    \cup {[tag |-> "array", items |-> l] : l \in SourceLists}
    \cup {[tag |-> "string", str |-> x] : x \in SourceStrings}

\* extractedSrc as the getSources endpoint sends it
Payloads ==
    [sources : SourcesValues,
     tracks : {NoValue} \cup {Some(t) : t \in TrackLists},
     encrypted : {NoValue, Some(TRUE), Some(FALSE)},
     t : {NoValue},
     server : {Some(1)}]

SourcesResponses ==
    {[tag |-> "error"], [tag |-> "null"], [tag |-> "empty"]}
    \cup {[tag |-> "json", body |-> d] : d \in Payloads}

KeyDoc(v, r, k) == [vidstr |-> v, rabbit |-> r, rabbitstreamKey |-> k]

KeyDocuments ==
    { KeyDoc(NoValue, NoValue, NoValue),
      KeyDoc(Some("k1"), NoValue, NoValue),
      KeyDoc(Some("k2"), NoValue, NoValue),
      KeyDoc(NoValue, Some("k1"), NoValue),
      KeyDoc(NoValue, NoValue, Some("k1")),
      KeyDoc(Some("k2"), Some("k1"), NoValue),
      KeyDoc(NoValue, Some("k1"), Some("k2")) }

OracleResponses ==
    { [tag |-> "error"],
      [tag |-> "text", file |-> Some("https://cdn/g.m3u8")],
      [tag |-> "text", file |-> Some("")],
      [tag |-> "text", file |-> NoValue] }

(***************************************************************************)
(* Strings, base64 and the cipher.  A byte buffer is described by what it  *)
(* holds: its first eight bytes, the next eight, and the AES-256-CBC       *)
(* ciphertext that its bytes from 16 on (rest) or all of its bytes (all)   *)
(* are, given as the key, IV and plaintext it was made from.               *)
(***************************************************************************)

Junk == [key |-> <<>>, iv |-> <<>>, pt |-> ""]

Cipher(key, iv, pt) == [key |-> key, iv |-> iv, pt |-> pt]

\* evpBytesToKey(password, salt): the MD5 chain over (prev, password, salt),
\* cut into key (32 bytes) and iv (16 bytes)
evpBytesToKey(password, salt) ==
    [key |-> <<"md5-chain", "0..32", password, salt>>,
     iv |-> <<"md5-chain", "32..48", password, salt>>]

\* crypto.createHash('sha256').update(secret).digest()
Sha256(secret) == <<"sha256", secret>>

ListText == "[{\"file\":\"https://cdn/l.m3u8\",\"type\":\"hls\"}]"

ObjectText == "{\"file\":\"https://cdn/o.m3u8\"}"

\* Buffer.from(str, 'base64')
Base64Decode(str) ==
    CASE str = "ctSalted" ->
            [head |-> "Salted__", salt |-> "s1", all |-> Junk,
             rest |-> Cipher(evpBytesToKey("k1", "s1").key,
                             evpBytesToKey("k1", "s1").iv,
                             "https://cdn/dec.m3u8")]
      [] str = "ctSaltedList" ->
            [head |-> "Salted__", salt |-> "s2", all |-> Junk,
             rest |-> Cipher(evpBytesToKey("k1", "s2").key,
                             evpBytesToKey("k1", "s2").iv,
                             ListText)]
      [] str = "ctSaltedObject" ->
            [head |-> "Salted__", salt |-> "s3", all |-> Junk,
             rest |-> Cipher(evpBytesToKey("k1", "s3").key,
                             evpBytesToKey("k1", "s3").iv,
                             ObjectText)]
      [] str = "ctNonce" ->
            [head |-> "other", salt |-> "other", rest |-> Junk,
             all |-> Cipher(Sha256("k1"), Rep("n", 16), "https://cdn/non.m3u8")]
      [] OTHER ->
            [head |-> "other", salt |-> "other", rest |-> Junk, all |-> Junk]

\* Buffer.from(data.sources as string, 'base64') when data.sources may be
\* an array after all: an array of objects gives zero bytes
BufferFrom(sources) ==
    IF sources.tag = "string" THEN Base64Decode(sources.str)
    ELSE Base64Decode("")

\* createDecipheriv('aes-256-cbc', key, iv): update + final; NoValue when
\* final() throws (the padding check fails under another key or IV)
AesCbcDecrypt(key, iv, c) ==
    IF c # Junk /\ c.key = key /\ c.iv = iv THEN Some(c.pt) ELSE NoValue

\* decryptOpenSSL(encryptedB64, password): the plaintext, NoValue on throw
decryptOpenSSL(buf, password) ==
    IF buf.head # "Salted__" THEN NoValue
    ELSE AesCbcDecrypt(evpBytesToKey(password, buf.salt).key,
                       evpBytesToKey(password, buf.salt).iv,
                       buf.rest)

\* the second strategy of decryptLocally: key = sha256(secret),
\* iv = first 16 bytes of the nonce
decryptNonceDerived(buf, nonceStr, secret) ==
    AesCbcDecrypt(Sha256(secret),
                  SubSeq(nonceStr, 1, IF Len(nonceStr) < 16 THEN Len(nonceStr) ELSE 16),
                  buf.all)

\* an entry of the strategy log
Strategy(name, ok) ==
    [name |-> name, state |-> IF ok THEN "succeeded" ELSE "failed"]

\* decryptLocally with the two strategies in the other order
decryptLocallyNonceFirst(buf, nonceStr, secret) ==
    LET first == decryptNonceDerived(buf, nonceStr, secret)
        second == decryptOpenSSL(buf, secret)
    IN  IF first.some
        THEN [text |-> first, tried |-> <<Strategy("nonce-derived", TRUE)>>]
        ELSE [text |-> second,
              tried |-> <<Strategy("nonce-derived", FALSE),
                          Strategy("salted", second.some)>>]

\* decryptLocally(encryptedData, nonce, secret):
\* [text: the plaintext or NoValue on throw, tried: the strategies run]
decryptLocally(buf, nonceStr, secret) ==
    LET first == decryptOpenSSL(buf, secret)
        second == decryptNonceDerived(buf, nonceStr, secret)
    IN  IF first.some
        THEN [text |-> first, tried |-> <<Strategy("salted", TRUE)>>]
        ELSE [text |-> second,
              tried |-> <<Strategy("salted", FALSE),
                          Strategy("nonce-derived", second.some)>>]

\* JSON.parse(text): [tag |-> "throws"], an object or an array
JsonParse(text) ==
    CASE text = ListText ->
            [tag |-> "array",
             items |-> <<Src("https://cdn/l.m3u8", Some("hls"))>>]
      [] text = ObjectText ->
            [tag |-> "object", file |-> Some("https://cdn/o.m3u8"), url |-> NoValue]
      [] OTHER -> [tag |-> "throws"]

\* str.includes('.m3u8')
IncludesM3u8(str) == str \in {PlainUrl}

\* JavaScript truthiness of an optional string, of an optional boolean
Truthy(o) == o.some /\ o.val # ""

TruthyFlag(o) == o.some /\ o.val

\* the keys the server caches under
CacheKeys == {"search:a", "info:b"}

NoEntries == [key \in CacheKeys |-> NoValue]

\* findBestFlixHQMatch has not been called
MatchIdle == matchIn = NoValue /\ matchOut = NoValue

\* decryptOpenSSL has not been called on its own
CryptIdle == cryptIn = NoValue /\ cryptOut = NoValue

\* the cache of a process that has not used it
CacheIdle ==
    /\ redis = "null"
    /\ redisConnectionAttempts = 0
    /\ memoryCache = NoEntries
    /\ redisStore = NoEntries
    /\ now = 0
    /\ call = NoValue

(***************************************************************************)
(* The resolver.  An action is the code between two awaits: it consumes    *)
(* the response the resolution waits for and runs to the next request or   *)
(* to the return.                                                          *)
(***************************************************************************)

Impls == {"live", "v1", "v2", "v3", "v4"}

\* an axios.get call: what is fetched, the headers it carries, and its
\* timeout: no call passes one and axios waits without limit by default
Request(kind, href, id, k, referer, userAgent) ==
    [method |-> "GET", kind |-> kind, href |-> href, id |-> id, k |-> k,
     referer |-> referer, userAgent |-> userAgent, timeout |-> NoValue]

PageRequest(e, referer) ==
    Request("page", e.href, NoValue, NoValue, Some(referer), Some(USER_AGENT))

\* GET ${MAIN_URL}/embed-1/v3/e-1/getSources?id=${id}&_k=${nonce}
SourcesRequest(id, k, referer) ==
    Request("getSources", MAIN_URL, Some(id), k, Some(referer), Some(USER_AGENT))

\* axios.get(KEY_URL): no headers given
KeyRequest == Request("key", KEY_URL, NoValue, NoValue, NoValue, NoValue)

\* axios.get(`${DECODE_URL}?${params}`): no headers given
OracleRequest == Request("oracle", DECODE_URL, NoValue, NoValue, NoValue, NoValue)

\* const extractedData = { sources: [], tracks: [], t: 0, server: 0 }
EmptyExtractedData == [sources |-> <<>>, tracks |-> <<>>, t |-> 0, server |-> 0]

\* extract's return with the tracks left out
ExtractResultNoTracks(ed) == [sources |-> ed.sources]

\* extract's return value: { sources: result.sources, tracks: result.tracks }
ExtractResult(ed) == [sources |-> ed.sources, tracks |-> ed.tracks]

\* what extract's catch returns: { sources: [] }
CatchResult == [sources |-> <<>>]

\* data.sources.map(src => ({ file: src.file, type: src.type || 'hls' }))
MapSources(items) ==
    [i \in 1..Len(items) |->
        Src(items[i].file,
            IF Truthy(items[i].type) THEN items[i].type ELSE Some("hls"))]

\* data.sources.map(src => ({ file: src.file, type: src.type }))
MapSourcesV3(items) == [i \in 1..Len(items) |-> Src(items[i].file, items[i].type)]

\* [{ file, type: 'hls' }]
SingleSource(file) == <<Src(file, Some("hls"))>>

IsCaption(track) == track.kind = "captions" \/ track.kind = "subtitles"

\* (data.tracks || []).filter(captions or subtitles)
FilterTracks(d) == IF d.tracks.some THEN SelectSeq(d.tracks.val, IsCaption) ELSE <<>>

\* data.tracks || []
AllTracks(d) == IF d.tracks.some THEN d.tracks.val ELSE <<>>

\* data.t || 0, data.server || 0
OrZero(o) == IF o.some THEN o.val ELSE 0

\* the tail of extract2: tracks, t, server, return extractedData
Normalized(srcs, d) ==
    [sources |-> srcs,
     tracks |-> IF impl = "v3" THEN AllTracks(d) ELSE FilterTracks(d),
     t |-> OrZero(d.t), server |-> OrZero(d.server)]

\* extract2 returns ed and extract returns its sources and tracks
Return(ed) ==
    /\ extractedData' = Some(ed)
    /\ result' = Some(ExtractResult(ed))
    /\ outcome' = "returned"
    /\ pc' = "done"
    /\ UNCHANGED requests

\* new URL() threw inside extract's try: its catch block returns
ReturnFromCatch ==
    /\ result' = Some(CatchResult)
    /\ outcome' = "returned"
    /\ pc' = "done"
    /\ UNCHANGED <<extractedData, requests>>

\* an exception leaves MegaCloud.extract
Throw ==
    /\ result' = NoValue
    /\ outcome' = "threw"
    /\ pc' = "done"
    /\ UNCHANGED <<extractedData, requests>>

\* extract2 suspends at its next axios.get
Await(req, at) ==
    /\ requests' = Append(requests, req)
    /\ pc' = at
    /\ UNCHANGED <<extractedData, outcome, result>>

\* the value of data once a JSON body arrived; an empty body has no fields
EmptyPayload ==
    [sources |-> [tag |-> "absent"], tracks |-> NoValue, encrypted |-> NoValue,
     t |-> NoValue, server |-> NoValue]

Body(resp) == IF resp.tag = "json" THEN resp.body ELSE EmptyPayload

\* truthiness of data.sources
SourcesTruthy(sv) == sv.tag = "array" \/ (sv.tag = "string" /\ sv.str # "")

\* the branches on Array.isArray(data.sources) / typeof data.sources === 'string'
PlainSources(sv) ==
    CASE sv.tag = "array" -> MapSources(sv.items)
      [] sv.tag = "string" -> SingleSource(sv.str)
      [] OTHER -> <<>>

(* ---- MegaCloud.extract up to the page request ---- *)

PageReferer(e) == IF impl = "v2" THEN MAIN_URL ELSE e.href

Extract ==
    /\ pc = "start"
    /\ embed' = NewURL(url)
    /\ IF ~NewURL(url).some
       THEN IF impl = "live" THEN Throw ELSE ReturnFromCatch
       ELSE /\ requests' = <<PageRequest(NewURL(url).val, PageReferer(NewURL(url).val))>>
            /\ extractedData' = IF impl = "live" THEN NoValue ELSE Some(EmptyExtractedData)
            /\ pc' = "awaitPage"
            /\ UNCHANGED <<outcome, result>>
    /\ UNCHANGED <<impl, url, keyDocument, page, nonce, data, keyData, oracleData,
                   strategies, offResolver>>

(* ---- the page arrives ---- *)

\* megacloud.ts: no try around extract2's body
LiveOnPage(resp) ==
    LET fileId == fileIdMatch(resp.body)
        n == extractNonce(resp.body)
    IN  IF resp.tag = "error" THEN Throw /\ nonce' = nonce
        ELSE IF ~fileId.some THEN Throw /\ nonce' = nonce
        ELSE IF ~n.some THEN Throw /\ nonce' = n
        ELSE /\ nonce' = n
             /\ Await(SourcesRequest(fileId.val, n, embed.val.href), "awaitSources")

\* DocOnPage with the page fetched a second time when the first fetch failed
DocOnPageRetrying(resp) ==
    LET fileId == fileIdMatch(resp.body)
        n == extractNonce(resp.body)
    IN  IF resp.tag = "error"
        THEN /\ nonce' = nonce
             /\ IF Len(requests) < 2
                THEN Await(PageRequest(embed.val, embed.val.href), "awaitPage")
                ELSE Return(extractedData.val)
        ELSE IF ~fileId.some THEN Return(extractedData.val) /\ nonce' = nonce
        ELSE IF ~n.some THEN Return(extractedData.val) /\ nonce' = n
        ELSE /\ nonce' = n
             /\ Await(SourcesRequest(fileId.val, n, embed.val.href), "awaitSources")

\* v1 and v4: the same steps inside extract2's try, whose catch returns
\* extractedData
DocOnPage(resp) ==
    LET fileId == fileIdMatch(resp.body)
        n == extractNonce(resp.body)
    IN  IF resp.tag = "error" THEN Return(extractedData.val) /\ nonce' = nonce
        ELSE IF ~fileId.some THEN Return(extractedData.val) /\ nonce' = nonce
        ELSE IF ~n.some THEN Return(extractedData.val) /\ nonce' = n
        ELSE /\ nonce' = n
             /\ Await(SourcesRequest(fileId.val, n, embed.val.href), "awaitSources")

\* v2: the id is the last path segment; the page only gives the nonce
V2OnPage(resp) ==
    LET id == PathId(embed.val)
        n == IF resp.tag = "error" THEN NoValue ELSE extractNonce(resp.body)
    IN  /\ nonce' = n
        /\ IF ~n.some THEN Return(extractedData.val)
           ELSE Await(SourcesRequest(id, n, MAIN_URL), "awaitSources")

\* v3: the token is optional; getSources is called with or without it
V3OnPage(resp) ==
    LET id == PathId(embed.val)
        token == IF resp.tag = "error" THEN NoValue ELSE match1(resp.body)
    IN  /\ nonce' = token
        /\ Await(SourcesRequest(id, token, MAIN_URL), "awaitSources")

PageResponse(resp) ==
    /\ pc = "awaitPage"
    /\ page' = Some(resp)
    /\ CASE impl = "live" -> LiveOnPage(resp)
         [] impl \in {"v1", "v4"} -> DocOnPage(resp)
         [] impl = "v2" -> V2OnPage(resp)
         [] impl = "v3" -> V3OnPage(resp)
    /\ UNCHANGED <<impl, url, keyDocument, embed, data, keyData, oracleData,
                   strategies, offResolver>>

(* ---- the getSources response arrives ---- *)

\* megacloud.ts 65-93: no decryption; reading data.sources of null throws
LiveOnSources(resp) ==
    IF resp.tag \in {"error", "null"} THEN Throw
    ELSE Return(Normalized(PlainSources(Body(resp).sources), Body(resp)))

\* v1 and v4: the flag decides on decryption
DocOnSources(resp) ==
    LET d == Body(resp)
    IN  IF resp.tag # "json" THEN Return(extractedData.val)
        ELSE IF TruthyFlag(d.encrypted) /\ SourcesTruthy(d.sources)
             THEN Await(KeyRequest, "awaitKey")
             ELSE Return(Normalized(PlainSources(d.sources), d))

\* v2: the shape decides; a string holding ".m3u8" is taken as it is
V2OnSources(resp) ==
    LET d == Body(resp)
    IN  IF resp.tag # "json" THEN Return(extractedData.val)
        ELSE IF d.sources.tag = "string"
             THEN IF IncludesM3u8(d.sources.str)
                  THEN Return(Normalized(SingleSource(d.sources.str), d))
                  ELSE Await(KeyRequest, "awaitKey")
             ELSE IF d.sources.tag = "array"
                  THEN Return(Normalized(MapSources(d.sources.items), d))
                  ELSE Return(Normalized(<<>>, d))

\* v3: every string is decrypted
V3OnSources(resp) ==
    LET d == Body(resp)
    IN  IF resp.tag # "json" THEN Return(extractedData.val)
        ELSE IF d.sources.tag = "string" THEN Await(KeyRequest, "awaitKey")
        ELSE IF d.sources.tag = "array"
             THEN Return(Normalized(MapSourcesV3(d.sources.items), d))
             ELSE Return(Normalized(<<>>, d))

SourcesResponse(resp) ==
    /\ pc = "awaitSources"
    /\ data' = Some(resp)
    /\ CASE impl = "live" -> LiveOnSources(resp)
         [] impl \in {"v1", "v4"} -> DocOnSources(resp)
         [] impl = "v2" -> V2OnSources(resp)
         [] impl = "v3" -> V3OnSources(resp)
    /\ UNCHANGED <<impl, url, keyDocument, embed, page, nonce, keyData, oracleData,
                   strategies, offResolver>>

(* ---- the key document arrives ---- *)

\* the file URL v1 reads out of the decrypted text
FileUrlOf(text) ==
    LET obj == JsonParse(text)
    IN  CASE obj.tag = "throws" -> Some(text)
          [] obj.tag = "object" ->
                IF Truthy(obj.file) THEN obj.file
                ELSE IF Truthy(obj.url) THEN obj.url ELSE NoValue
          [] OTHER -> NoValue

\* v1: keyData?.vidstr, decryptLocally, JSON.parse; any throw leaves
\* extractedData.sources empty
V1OnKey(ok) ==
    LET d == Body(data.val)
        secret == keyDocument.vidstr
        dec == decryptLocally(BufferFrom(d.sources), nonce.val, secret.val)
        fileUrl == FileUrlOf(dec.text.val)
    IN  IF ~ok \/ ~Truthy(secret)
        THEN /\ strategies' = strategies
             /\ Return(Normalized(<<>>, d))
        ELSE /\ strategies' = strategies \o dec.tried
             /\ IF dec.text.some /\ Truthy(fileUrl)
                THEN Return(Normalized(SingleSource(fileUrl.val), d))
                ELSE Return(Normalized(<<>>, d))

\* v2 and v4: keyData?.vidstr, then the remote oracle
OracleOnKey(ok) ==
    LET d == Body(data.val)
        secret == keyDocument.vidstr
    IN  IF ~ok \/ ~Truthy(secret)
        THEN /\ strategies' = strategies
             /\ Return(Normalized(<<>>, d))
        ELSE /\ strategies' = Append(strategies, [name |-> "oracle", state |-> "running"])
             /\ Await(OracleRequest, "awaitOracle")

\* keyData?.vidstr ?? keyData?.rabbit ?? keyData?.rabbitstream?.key
Password(doc) ==
    IF doc.vidstr.some THEN doc.vidstr
    ELSE IF doc.rabbit.some THEN doc.rabbit
    ELSE doc.rabbitstreamKey

\* v3: decryptOpenSSL and JSON.parse as a list
V3OnKey(ok) ==
    LET d == Body(data.val)
        password == Password(keyDocument)
        dec == decryptOpenSSL(Base64Decode(d.sources.str), password.val)
        parsed == JsonParse(dec.val)
    IN  IF ~ok \/ ~Truthy(password)
        THEN /\ strategies' = strategies
             /\ Return(Normalized(<<>>, d))
        ELSE /\ strategies' = Append(strategies, Strategy("salted", dec.some))
             /\ IF dec.some /\ parsed.tag = "array"
                THEN Return(Normalized(MapSourcesV3(parsed.items), d))
                ELSE Return(Normalized(<<>>, d))

KeyResponse(ok) ==
    /\ pc = "awaitKey"
    /\ keyData' = Some(IF ok THEN [tag |-> "json", body |-> keyDocument]
                            ELSE [tag |-> "error"])
    /\ CASE impl = "v1" -> V1OnKey(ok)
         [] impl \in {"v2", "v4"} -> OracleOnKey(ok)
         [] impl = "v3" -> V3OnKey(ok)
    /\ UNCHANGED <<impl, url, keyDocument, embed, page, nonce, data, oracleData,
                   offResolver>>

(* ---- the oracle answers ---- *)

\* OracleResponse with an empty match taken for a URL
OracleResponseAnyMatch(resp) ==
    LET found == resp.tag = "text" /\ resp.file.some
    IN  /\ pc = "awaitOracle"
        /\ oracleData' = Some(resp)
        /\ strategies' = [strategies EXCEPT ![Len(strategies)] =
                                                Strategy("oracle", found)]
        /\ IF found
           THEN Return(Normalized(SingleSource(resp.file.val), Body(data.val)))
           ELSE Return(Normalized(<<>>, Body(data.val)))
        /\ UNCHANGED <<impl, url, keyDocument, embed, page, nonce, data, keyData,
                       offResolver>>

\* decryptWithGoogleScript: data.match(/"file":"(.*?)"/)?.[1], throw if falsy
OracleResponse(resp) ==
    LET found == resp.tag = "text" /\ Truthy(resp.file)
    IN  /\ pc = "awaitOracle"
        /\ oracleData' = Some(resp)
        /\ strategies' = [strategies EXCEPT ![Len(strategies)] =
                                                Strategy("oracle", found)]
        /\ IF found
           THEN Return(Normalized(SingleSource(resp.file.val), Body(data.val)))
           ELSE Return(Normalized(<<>>, Body(data.val)))
        /\ UNCHANGED <<impl, url, keyDocument, embed, page, nonce, data, keyData,
                       offResolver>>

Init ==
    /\ impl \in Impls
    /\ url \in Urls
    /\ keyDocument \in KeyDocuments
    /\ pc = "start"
    /\ embed = NoValue
    /\ page = NoValue
    /\ nonce = NoValue
    /\ data = NoValue
    /\ keyData = NoValue
    /\ oracleData = NoValue
    /\ extractedData = NoValue
    /\ requests = <<>>
    /\ strategies = <<>>
    /\ outcome = "pending"
    /\ result = NoValue
    /\ other = NoValue
    /\ CacheIdle
    /\ MatchIdle
    /\ CryptIdle
    /\ nHtml = <<>>
    /\ nOut = NoValue
    /\ nPc = "idle"

Next ==
    \/ Extract
    \/ \E resp \in PageResponses : PageResponse(resp)
    \/ \E resp \in SourcesResponses : SourcesResponse(resp)
    \/ \E ok \in BOOLEAN : KeyResponse(ok)
    \/ \E resp \in OracleResponses : OracleResponse(resp)

Spec == Init /\ [][Next]_vars

\* The resolver under the scheduling the runtime gives: a call of extract
\* runs; a continuation runs only when the awaited axios.get settles, which
\* is the upstream's doing, since no request carries a timeout.
SpecFair == Spec /\ WF_vars(Extract)

(***************************************************************************)
(* Two calls of MegaCloud.extract in one process.  The runtime runs one    *)
(* continuation at a time; the call whose continuation runs has its locals *)
(* in the resolver's variables and the other call's locals are kept in     *)
(* other.  SpecPair interleaves the two calls at their awaits.             *)
(***************************************************************************)

\* the locals of a call: extract's url and embedUrl, extract2's html, nonce,
\* data and extractedData, and what the call has issued and returned
CallState ==
    [url |-> url, pc |-> pc, embed |-> embed, page |-> page, nonce |-> nonce,
     data |-> data, keyData |-> keyData, oracleData |-> oracleData,
     extractedData |-> extractedData,
     requests |-> requests,
     strategies |-> strategies, outcome |-> outcome, result |-> result]

\* a call of MegaCloud.extract(u) that has not run yet
NewCall(u) ==
    [url |-> u, pc |-> "start", embed |-> NoValue, page |-> NoValue,
     nonce |-> NoValue, data |-> NoValue, keyData |-> NoValue,
     oracleData |-> NoValue,
     extractedData |-> NoValue,
     requests |-> <<>>, strategies |-> <<>>, outcome |-> "pending",
     result |-> NoValue]

\* the switch with extractedData kept in one place for both calls
SwitchSharedExtractedData ==
    /\ other.some
    /\ other' = Some(CallState)
    /\ url' = other.val.url
    /\ pc' = other.val.pc
    /\ embed' = other.val.embed
    /\ page' = other.val.page
    /\ nonce' = other.val.nonce
    /\ data' = other.val.data
    /\ keyData' = other.val.keyData
    /\ oracleData' = other.val.oracleData
    /\ extractedData' = extractedData
    /\ requests' = other.val.requests
    /\ strategies' = other.val.strategies
    /\ outcome' = other.val.outcome
    /\ result' = other.val.result
    /\ UNCHANGED <<impl, keyDocument, nonceVars, cacheVars, matchVars, cryptVars>>

\* the running call is suspended at its await (or has returned) and the
\* other call's continuation runs: each call finds its own locals again
Switch ==
    /\ other.some
    /\ other' = Some(CallState)
    /\ url' = other.val.url
    /\ pc' = other.val.pc
    /\ embed' = other.val.embed
    /\ page' = other.val.page
    /\ nonce' = other.val.nonce
    /\ data' = other.val.data
    /\ keyData' = other.val.keyData
    /\ oracleData' = other.val.oracleData
    /\ extractedData' = other.val.extractedData
    /\ requests' = other.val.requests
    /\ strategies' = other.val.strategies
    /\ outcome' = other.val.outcome
    /\ result' = other.val.result
    /\ UNCHANGED <<impl, keyDocument, nonceVars, cacheVars, matchVars, cryptVars>>

InitPair ==
    /\ impl \in Impls
    /\ keyDocument \in {KeyDoc(NoValue, NoValue, NoValue),
                        KeyDoc(Some("k1"), NoValue, NoValue)}
    /\ url \in Urls
    /\ other \in {Some(NewCall(u)) : u \in Urls \ {url}}
    /\ pc = "start"
    /\ embed = NoValue
    /\ page = NoValue
    /\ nonce = NoValue
    /\ data = NoValue
    /\ keyData = NoValue
    /\ oracleData = NoValue
    /\ extractedData = NoValue
    /\ requests = <<>>
    /\ strategies = <<>>
    /\ outcome = "pending"
    /\ result = NoValue
    /\ CacheIdle
    /\ MatchIdle
    /\ CryptIdle
    /\ nHtml = <<>>
    /\ nOut = NoValue
    /\ nPc = "idle"

NextPair ==
    LET pages == {[tag |-> "error"],
                  [tag |-> "ok", body |-> DataId(<<"f", "1">>) \o <<"-">> \o N48],
                  [tag |-> "ok", body |-> <<"-">>]}
        payloads == {d \in Payloads :
                        /\ d.encrypted # Some(FALSE)
                        /\ d.tracks # Some(<<>>)
                        /\ d.sources \in
                              {[tag |-> "array", items |-> l] :
                                    l \in SourceLists \ {<<>>}}
                              \cup {[tag |-> "string", str |-> "ctSalted"],
                                    [tag |-> "string", str |-> "ctOpaque"]}}
    IN  \/ Extract
        \/ \E resp \in pages : PageResponse(resp)
        \/ \E resp \in {[tag |-> "error"]} \cup
                       {[tag |-> "json", body |-> d] : d \in payloads} :
              SourcesResponse(resp)
        \/ \E ok \in BOOLEAN : KeyResponse(ok)
        \/ \E resp \in OracleResponses : OracleResponse(resp)
        \/ Switch

SpecPair == InitPair /\ [][NextPair]_vars

\* no resolution is running
ResolverIdle ==
    /\ impl = "none"
    /\ url = NoValue
    /\ pc = "idle"
    /\ keyDocument = NoValue
    /\ embed = NoValue
    /\ page = NoValue
    /\ nonce = NoValue
    /\ data = NoValue
    /\ keyData = NoValue
    /\ oracleData = NoValue
    /\ extractedData = NoValue
    /\ requests = <<>>
    /\ strategies = <<>>
    /\ outcome = "pending"
    /\ result = NoValue
    /\ other = NoValue

(***************************************************************************)
(* The server's cache: Redis when the client exists, else the in-memory    *)
(* map.  Times are in seconds.  cacheUtils (./utils/cache), which talks to *)
(* Redis, is not among the sources: its three operations are modelled as   *)
(* get, set and compute-and-store-if-absent on redisStore, any of which    *)
(* may throw.                                                              *)
(***************************************************************************)

MAX_REDIS_CONNECTION_ATTEMPTS == 3

\* the values callers cache: null (NoValue) or a JSON value
CacheValues == {NoValue, Some("a")}

CacheTtls == {1}

MaxNow == 2

\* JSON.stringify(value), JSON.parse(text)
JsonStringify(value) == IF value.some THEN "\"" \o value.val \o "\"" ELSE "null"

JsonParseValue(text) ==
    CHOOSE value \in CacheValues : JsonStringify(value) = text

\* cacheUtils.get(redis, key): the stored value, null when absent or expired
RedisGet(key) ==
    IF redisStore[key].some /\ now < redisStore[key].val.expiresAt
    THEN JsonParseValue(redisStore[key].val.value)
    ELSE NoValue

\* what cacheUtils.set(redis, key, ..., ttlSeconds) leaves in Redis
RedisSet(key, value, ttlSeconds) ==
    [redisStore EXCEPT ![key] =
        Some([value |-> JsonStringify(value), expiresAt |-> now + ttlSeconds])]

\* the in-memory part of cacheGet: [ret: the value or null, mem: the map after]
MemoryGet(mem, key) ==
    LET cached == mem[key]
    IN  IF ~cached.some THEN [ret |-> NoValue, mem |-> mem]
        ELSE IF now > cached.val.expiresAt
        THEN [ret |-> NoValue, mem |-> [mem EXCEPT ![key] = NoValue]]
        ELSE [ret |-> JsonParseValue(cached.val.value), mem |-> mem]

\* memoryCache.set(key, { value: JSON.stringify(value), expiresAt: ... })
MemorySet(mem, key, value, ttlSeconds) ==
    [mem EXCEPT ![key] =
        Some([value |-> JsonStringify(value), expiresAt |-> now + ttlSeconds])]

\* one cache call and its outcome
Call(op, key, throws, ret, fetcherCalls) ==
    [op |-> op, key |-> key, throws |-> throws, ret |-> ret,
     fetcherCalls |-> fetcherCalls]

\* cacheGet(key); throws: the Redis operation throws
cacheGet(key, throws) ==
    /\ redis = "null" => ~throws
    /\ IF redis # "null" /\ ~throws
       THEN /\ call' = Some(Call("cacheGet", key, throws, RedisGet(key), 0))
            /\ UNCHANGED memoryCache
       ELSE /\ call' = Some(Call("cacheGet", key, throws,
                                 MemoryGet(memoryCache, key).ret, 0))
            /\ memoryCache' = MemoryGet(memoryCache, key).mem
    /\ UNCHANGED <<redis, redisConnectionAttempts, redisStore, now, offCache>>

\* cacheSet(key, value, ttlSeconds)
cacheSet(key, value, ttlSeconds, throws) ==
    /\ redis = "null" => ~throws
    /\ IF redis # "null" /\ ~throws
       THEN /\ redisStore' = RedisSet(key, value, ttlSeconds)
            /\ UNCHANGED memoryCache
       ELSE /\ memoryCache' = MemorySet(memoryCache, key, value, ttlSeconds)
            /\ UNCHANGED redisStore
    /\ call' = Some(Call("cacheSet", key, throws, value, 0))
    /\ UNCHANGED <<redis, redisConnectionAttempts, now, offCache>>

\* cacheFetch(key, fetcher, ttlSeconds); produced: what fetcher() resolves
\* to; throws: "no", or the Redis operation throws "before" or "after"
\* cacheUtils.fetch has called the fetcher
cacheFetch(key, produced, ttlSeconds, throws) ==
    /\ redis = "null" => throws = "no"
    /\ IF redis # "null"
       THEN IF throws = "no"
            THEN IF RedisGet(key).some
                 THEN /\ call' = Some(Call("cacheFetch", key, FALSE, RedisGet(key), 0))
                      /\ UNCHANGED <<redisStore, memoryCache>>
                 ELSE /\ call' = Some(Call("cacheFetch", key, FALSE, produced, 1))
                      /\ redisStore' = RedisSet(key, produced, ttlSeconds)
                      /\ UNCHANGED memoryCache
            ELSE /\ call' = Some(Call("cacheFetch", key, TRUE, produced,
                                      IF throws = "before" THEN 1 ELSE 2))
                 /\ UNCHANGED <<redisStore, memoryCache>>
       ELSE LET got == MemoryGet(memoryCache, key)
            IN  IF got.ret.some
                THEN /\ call' = Some(Call("cacheFetch", key, FALSE, got.ret, 0))
                     /\ memoryCache' = got.mem
                     /\ UNCHANGED redisStore
                ELSE /\ call' = Some(Call("cacheFetch", key, FALSE, produced, 1))
                     /\ memoryCache' = MemorySet(got.mem, key, produced, ttlSeconds)
                     /\ UNCHANGED redisStore
    /\ UNCHANGED <<redis, redisConnectionAttempts, now, offCache>>

\* the error handler disabling Redis one error late
RedisErrorOneLate ==
    /\ redis # "null"
    /\ redisConnectionAttempts' = redisConnectionAttempts + 1
    /\ redis' = IF redisConnectionAttempts + 1 > MAX_REDIS_CONNECTION_ATTEMPTS
                THEN "null" ELSE redis
    /\ UNCHANGED <<memoryCache, redisStore, now, call, offCache>>

\* redis.on("error", ...)
RedisError ==
    /\ redis # "null"
    /\ redisConnectionAttempts' = redisConnectionAttempts + 1
    /\ redis' = IF redisConnectionAttempts + 1 >= MAX_REDIS_CONNECTION_ATTEMPTS
                THEN "null" ELSE redis
    /\ UNCHANGED <<memoryCache, redisStore, now, call, offCache>>

\* redis.on("connect", ...)
RedisConnect ==
    /\ redis # "null"
    /\ redisConnectionAttempts' = 0
    /\ UNCHANGED <<redis, memoryCache, redisStore, now, call, offCache>>

\* time passes
Tick ==
    /\ now < MaxNow
    /\ now' = now + 1
    /\ UNCHANGED <<redis, redisConnectionAttempts, memoryCache, redisStore, call,
                   offCache>>

\* the server starts with REDIS_HOST set or not
InitCache ==
    /\ ResolverIdle
    /\ redis \in {"null", "client"}
    /\ redisConnectionAttempts = 0
    /\ memoryCache = NoEntries
    /\ redisStore = NoEntries
    /\ now = 0
    /\ call = NoValue
    /\ MatchIdle
    /\ CryptIdle
    /\ nHtml = <<>>
    /\ nOut = NoValue
    /\ nPc = "idle"

NextCache ==
    \/ \E key \in CacheKeys, throws \in BOOLEAN : cacheGet(key, throws)
    \/ \E key \in CacheKeys, value \in CacheValues, ttl \in CacheTtls,
          throws \in BOOLEAN : cacheSet(key, value, ttl, throws)
    \/ \E key \in CacheKeys, produced \in CacheValues, ttl \in CacheTtls,
          throws \in {"no", "before", "after"} :
          cacheFetch(key, produced, ttl, throws)
    \/ RedisError
    \/ RedisConnect
    \/ Tick

SpecCache == InitCache /\ [][NextCache]_vars

(***************************************************************************)
(* findBestFlixHQMatch.  A title is the sequence of its words; a date is   *)
(* the sequence of its parts between the dashes.  SpecMatch applies the    *)
(* function to every search response of at most MaxResults results.        *)
(***************************************************************************)

MaxResults == 2

\* toLowerCase() of a word
LowerWord(w) ==
    CASE w = "The" -> "the" [] w = "Dark" -> "dark" [] w = "Knight" -> "knight"
      [] w = "Alien" -> "alien" [] OTHER -> w

ToLowerCase(title) == [i \in 1..Len(title) |-> LowerWord(title[i])]

\* title.includes(part): part occurs in title
Includes(title, part) ==
    \E i \in 0..(Len(title) - Len(part)) :
        SubSeq(title, i + 1, i + Len(part)) = part

isTitleSimilarEnough(title1, title2) ==
    LET words1 == ToLowerCase(title1)
        words2 == ToLowerCase(title2)
        commonWords == SelectSeq(words1,
                          LAMBDA w : \E j \in 1..Len(words2) : words2[j] = w)
        shorter == IF Len(words1) < Len(words2) THEN Len(words1) ELSE Len(words2)
    IN  \/ words1 = words2
        \/ /\ Len(words1) <= 2 \/ Len(words2) <= 2
           /\ Includes(words1, words2) \/ Includes(words2, words1)
        \/ 10 * Len(commonWords) >= 7 * shorter

\* parseInt of a year
ParseInt(str) ==
    CASE str = "2010" -> 2010 [] str = "2012" -> 2012 [] OTHER -> 0

Abs(x) == IF x < 0 THEN 0 - x ELSE x

\* list.reduce((closest, current) => diffCurrent < diffClosest ? current
\* : closest, list[0]), given the list of the diffs: the index kept
RECURSIVE ReduceClosest(_, _, _)
ReduceClosest(diffs, i, closest) ==
    IF i > Len(diffs) THEN closest
    ELSE ReduceClosest(diffs, i + 1,
                       IF diffs[i] < diffs[closest] THEN i ELSE closest)

\* m.releaseDate ? m.releaseDate.split("-")[0] : undefined
FlixYear(m) == IF m.releaseDate.some THEN Some(m.releaseDate.val[1]) ELSE NoValue

\* step 3 with every result of the type taken as the fallback
FallbackForEveryType(relevantResults, isMovie) == Some(relevantResults[1])

\* step 3: for TV series only, the first relevant result
Fallback(relevantResults, isMovie) ==
    IF ~isMovie THEN Some(relevantResults[1]) ELSE NoValue

\* the part of findBestFlixHQMatch from "Movie Specific Matching" on
MatchByYear(relevantResults, tmdbDetails, isMovie) ==
    LET tmdbTitle == ToLowerCase(tmdbDetails.title)
        tmdbYear == IF tmdbDetails.date.some THEN Some(tmdbDetails.date.val[1])
                    ELSE NoValue
        tmdbYearNum == ParseInt(IF Truthy(tmdbYear) THEN tmdbYear.val ELSE "0")
        exact == SelectSeq(relevantResults,
                     LAMBDA m : /\ isTitleSimilarEnough(m.title, tmdbTitle)
                                /\ FlixYear(m) = tmdbYear)
        matchingTitleResults ==
            SelectSeq(relevantResults,
                      LAMBDA m : isTitleSimilarEnough(m.title, tmdbTitle))
        diffs == [i \in 1..Len(matchingTitleResults) |->
                    Abs(ParseInt(IF FlixYear(matchingTitleResults[i]).some
                                 THEN FlixYear(matchingTitleResults[i]).val
                                 ELSE "0") - tmdbYearNum)]
    IN  IF exact # <<>> THEN Some(exact[1])
        ELSE IF isMovie /\ Truthy(tmdbYear) THEN NoValue
        ELSE IF matchingTitleResults # <<>>
        THEN IF tmdbYearNum > 0
             THEN Some(matchingTitleResults[ReduceClosest(diffs, 1, 1)])
             ELSE Some(matchingTitleResults[1])
        ELSE Fallback(relevantResults, isMovie)

\* findBestFlixHQMatch(searchResults, tmdbDetails, type): the result chosen,
\* NoValue for null
findBestFlixHQMatch(searchResults, tmdbDetails, type) ==
    LET isMovie == type = "MOVIE"
        tmdbTitle == ToLowerCase(tmdbDetails.title)
        relevantResults == SelectSeq(searchResults.results, LAMBDA m : m.type = type)
        tmdbNumberOfSeasons == tmdbDetails.number_of_seasons
        found == SelectSeq(relevantResults,
                     LAMBDA show : /\ isTitleSimilarEnough(show.title, tmdbTitle)
                                   /\ show.seasons = tmdbNumberOfSeasons)
        matchingTitleShows ==
            SelectSeq(relevantResults,
                      LAMBDA show : isTitleSimilarEnough(show.title, tmdbTitle))
        diffs == [i \in 1..Len(matchingTitleShows) |->
                    Abs(OrZero(matchingTitleShows[i].seasons)
                        - tmdbNumberOfSeasons.val)]
    IN  IF relevantResults = <<>> THEN NoValue
        ELSE IF ~isMovie /\ tmdbNumberOfSeasons.some /\ found # <<>>
        THEN Some(found[1])
        ELSE IF ~isMovie /\ tmdbNumberOfSeasons.some /\ matchingTitleShows # <<>>
        THEN Some(matchingTitleShows[ReduceClosest(diffs, 1, 1)])
        ELSE MatchByYear(relevantResults, tmdbDetails, isMovie)

\* the results FlixHQ's search gives
FlixHQSearchResults ==
    [title : {<<"The", "Dark", "Knight">>, <<"Alien">>},
     type : {"MOVIE", "TVSERIES"},
     releaseDate : {NoValue, Some(<<"2010", "07", "16">>), Some(<<"2012", "01", "02">>)},
     seasons : {NoValue, Some(2)}]

\* the details TMDB gives: title (or name), release_date (or
\* first_air_date), number_of_seasons
TMDBDetails ==
    [title : {<<"The", "Dark", "Knight">>, <<"Dark", "Knight", "The", "Movie">>},
     date : {NoValue, Some(<<"2010", "07", "16">>)},
     number_of_seasons : {NoValue, Some(2)}]

InitMatch ==
    /\ ResolverIdle
    /\ CacheIdle
    /\ matchIn \in
          {Some([searchResults |-> [results |-> r], tmdbDetails |-> d, type |-> t]) :
              r \in UNION {[1..n -> FlixHQSearchResults] : n \in 0..MaxResults},
              d \in TMDBDetails, t \in {"MOVIE", "TVSERIES"}}
    /\ matchOut = NoValue
    /\ CryptIdle
    /\ nHtml = <<>>
    /\ nOut = NoValue
    /\ nPc = "idle"

\* one call of findBestFlixHQMatch
FindBestFlixHQMatchCall ==
    /\ matchIn.some /\ matchOut = NoValue
    /\ matchOut' = Some(findBestFlixHQMatch(matchIn.val.searchResults,
                                            matchIn.val.tmdbDetails,
                                            matchIn.val.type))
    /\ UNCHANGED <<matchIn, resolverVars, other, cacheVars, nonceVars, cryptVars>>

NextMatch == FindBestFlixHQMatchCall

SpecMatch == InitMatch /\ [][NextMatch]_vars

(***************************************************************************)
(* The token extractor on its own: SpecNonce applies extractNonce to every *)
(* page built from at most MaxPieces pieces, a piece being a separator     *)
(* followed by an alphanumeric run.                                        *)
(***************************************************************************)

MaxPieces == 4

NonceSeparators == {<<>>, <<"-">>, <<"_">>, <<"\n">>}

NonceRuns == {Rep("a", SEGMENT_LEN), Rep("b", SEGMENT_LEN), Rep("n", NONCE_LEN)}

NoncePieces == {sep \o run : sep \in NonceSeparators, run \in NonceRuns}

RECURSIVE Flatten(_)
Flatten(ps) == IF ps = <<>> THEN <<>> ELSE Head(ps) \o Flatten(Tail(ps))

NonceHtmls ==
    {Flatten(ps) : ps \in UNION {[1..m -> NoncePieces] : m \in 0..MaxPieces}}

InitNonce ==
    /\ ResolverIdle
    /\ CacheIdle
    /\ MatchIdle
    /\ CryptIdle
    /\ nHtml \in NonceHtmls
    /\ nOut = NoValue
    /\ nPc = "ready"

\* one call of extractNonce(html)
ExtractNonceCall ==
    /\ nPc = "ready"
    /\ nOut' = extractNonce(nHtml)
    /\ nPc' = "done"
    /\ UNCHANGED <<nHtml, resolverVars, other, cacheVars, matchVars, cryptVars>>

NextNonce == ExtractNonceCall

SpecNonce == InitNonce /\ [][NextNonce]_vars

(***************************************************************************)
(* The salted scheme byte by byte.  A buffer is a sequence of bytes        *)
(* (0..255), a base64 string a sequence of its digits (0..63, and 64 for   *)
(* the padding "="), a text a sequence of code points.  MD5 and the AES    *)
(* block cipher are stood in for by a digest and a keyed permutation of    *)
(* the same sizes; the chaining, the padding, the framing and the two      *)
(* encodings are the real ones.                                            *)
(***************************************************************************)

\* Buffer.from('Salted__')
SALTED == <<83, 97, 108, 116, 101, 100, 95, 95>>

\* keyLen = 32, ivLen = 16
KEY_LEN == 32

IV_LEN == 16

\* the block of aes-256-cbc
BLOCK_LEN == 16

\* buf.slice(from, to) of a Buffer: zero-based, to exclusive, clamped
Slice(buf, from, to) ==
    SubSeq(buf, from + 1, IF to < Len(buf) THEN to ELSE Len(buf))

RECURSIVE Xor(_, _)
\* a ^ b on bytes
Xor(a, b) ==
    IF a = 0 /\ b = 0 THEN 0
    ELSE ((a + b) % 2) + 2 * Xor(a \div 2, b \div 2)

RECURSIVE Utf8Encode(_)
\* Buffer.from(text): UTF-8, for code points below 2048
Utf8Encode(text) ==
    IF text = <<>> THEN <<>>
    ELSE (IF text[1] < 128 THEN <<text[1]>>
          ELSE <<192 + (text[1] \div 64), 128 + (text[1] % 64)>>)
         \o Utf8Encode(Tail(text))

RECURSIVE Utf8Decode(_)
\* out.toString('utf8'): a byte that starts no valid sequence becomes U+FFFD
Utf8Decode(bytes) ==
    IF bytes = <<>> THEN <<>>
    ELSE IF bytes[1] < 128 THEN <<bytes[1]>> \o Utf8Decode(Tail(bytes))
    ELSE IF /\ bytes[1] \in 194..223
            /\ Len(bytes) >= 2
            /\ bytes[2] \in 128..191
         THEN <<(bytes[1] - 192) * 64 + (bytes[2] - 128)>>
              \o Utf8Decode(SubSeq(bytes, 3, Len(bytes)))
    ELSE <<65533>> \o Utf8Decode(Tail(bytes))

\* Buffer.from(encryptedB64, 'base64'), on the digits themselves: the
\* padding is dropped, four digits give three bytes, a trailing group of
\* three or two digits gives two bytes or one
Base64DecodeBytes(str) ==
    LET RECURSIVE Groups(_)
        Groups(s) ==
            IF Len(s) >= 4
            THEN LET n == s[1] * 262144 + s[2] * 4096 + s[3] * 64 + s[4]
                 IN  <<n \div 65536, (n \div 256) % 256, n % 256>>
                     \o Groups(SubSeq(s, 5, Len(s)))
            ELSE IF Len(s) = 3
            THEN <<(s[1] * 4096 + s[2] * 64 + s[3]) \div 1024,
                   ((s[1] * 4096 + s[2] * 64 + s[3]) \div 4) % 256>>
            ELSE IF Len(s) = 2 THEN <<(s[1] * 64 + s[2]) \div 16>>
            ELSE <<>>
    IN  Groups(SelectSeq(str, LAMBDA x : x < 64))

RECURSIVE Base64Encode(_)
\* buf.toString('base64')
Base64Encode(b) ==
    IF Len(b) >= 3
    THEN LET n == b[1] * 65536 + b[2] * 256 + b[3]
         IN  <<n \div 262144, (n \div 4096) % 64, (n \div 64) % 64, n % 64>>
             \o Base64Encode(SubSeq(b, 4, Len(b)))
    ELSE IF Len(b) = 2
    THEN <<b[1] \div 4, ((b[1] % 4) * 16) + (b[2] \div 16), (b[2] % 16) * 4, 64>>
    ELSE IF Len(b) = 1 THEN <<b[1] \div 4, (b[1] % 4) * 16, 64, 64>>
    ELSE <<>>

\* crypto.createHash('md5').update(bytes).digest(): 16 bytes that depend on
\* every byte of the input and on its place
Md5(bytes) ==
    LET RECURSIVE WeightedSum(_, _)
        WeightedSum(i, n) ==
            IF n = 0 THEN 0 ELSE bytes[n] * (i + n) + WeightedSum(i, n - 1)
    IN  [i \in 1..16 |->
            (WeightedSum(i, Len(bytes)) + 31 * i + Len(bytes)) % 256]

RECURSIVE EvpChain(_, _, _, _)
\* the while loop of evpBytesToKey
EvpChain(derived, prev, password, salt) ==
    IF Len(derived) >= KEY_LEN + IV_LEN THEN derived
    ELSE EvpChain(derived \o Md5(prev \o password \o salt),
                  Md5(prev \o password \o salt), password, salt)

\* evpBytesToKey(password, salt) on bytes
evpBytesToKeyBytes(password, salt) ==
    LET derived == EvpChain(<<>>, <<>>, Utf8Encode(password), salt)
    IN  [key |-> Slice(derived, 0, KEY_LEN),
         iv |-> Slice(derived, KEY_LEN, KEY_LEN + IV_LEN)]

\* the block cipher under a 32-byte key, and its inverse
EncryptBlock(key, b) ==
    [i \in 1..BLOCK_LEN |->
        (b[(i % BLOCK_LEN) + 1] + key[i] + key[i + BLOCK_LEN]) % 256]

DecryptBlock(key, c) ==
    [j \in 1..BLOCK_LEN |->
        LET i == ((j + BLOCK_LEN - 2) % BLOCK_LEN) + 1
        IN  (c[i] + 512 - key[i] - key[i + BLOCK_LEN]) % 256]

XorBlock(a, b) == [i \in 1..BLOCK_LEN |-> Xor(a[i], b[i])]

RECURSIVE CbcEncrypt(_, _, _)
\* cipher block chaining over whole blocks
CbcEncrypt(key, prev, p) ==
    IF p = <<>> THEN <<>>
    ELSE LET c == EncryptBlock(key, XorBlock(SubSeq(p, 1, BLOCK_LEN), prev))
         IN  c \o CbcEncrypt(key, c, SubSeq(p, BLOCK_LEN + 1, Len(p)))

RECURSIVE CbcDecrypt(_, _, _)
CbcDecrypt(key, prev, c) ==
    IF c = <<>> THEN <<>>
    ELSE XorBlock(DecryptBlock(key, SubSeq(c, 1, BLOCK_LEN)), prev)
         \o CbcDecrypt(key, SubSeq(c, 1, BLOCK_LEN),
                       SubSeq(c, BLOCK_LEN + 1, Len(c)))

\* PKCS#7: 1..16 bytes, each holding their number
Pkcs7Pad(p) ==
    p \o [i \in 1..(BLOCK_LEN - (Len(p) % BLOCK_LEN)) |->
             BLOCK_LEN - (Len(p) % BLOCK_LEN)]

\* decipher.update(c) + decipher.final() with the padding left in place
AesCbcDecryptBytesPadded(key, iv, c) ==
    IF c = <<>> \/ Len(c) % BLOCK_LEN # 0 THEN NoValue
    ELSE Some(CbcDecrypt(key, iv, c))

\* decipher.update(c) + decipher.final(): NoValue when final() throws (a
\* length that is no multiple of the block, or a bad padding)
AesCbcDecryptBytes(key, iv, c) ==
    IF c = <<>> \/ Len(c) % BLOCK_LEN # 0 THEN NoValue
    ELSE LET p == CbcDecrypt(key, iv, c)
             n == p[Len(p)]
         IN  IF /\ n \in 1..BLOCK_LEN
                /\ \A k \in (Len(p) - n + 1)..Len(p) : p[k] = n
             THEN Some(SubSeq(p, 1, Len(p) - n))
             ELSE NoValue

\* decryptOpenSSL(encryptedB64, password) on bytes: the text, NoValue on throw
decryptOpenSSLBytes(encryptedB64, password) ==
    LET buf == Base64DecodeBytes(encryptedB64)
        salt == Slice(buf, 8, 16)
        kv == evpBytesToKeyBytes(password, salt)
        out == AesCbcDecryptBytes(kv.key, kv.iv, Slice(buf, 16, Len(buf)))
    IN  IF Slice(buf, 0, 8) # SALTED THEN NoValue
        ELSE IF out.some THEN Some(Utf8Decode(out.val))
        ELSE NoValue

\* what the upstream sends: base64("Salted__" + salt + ciphertext), the
\* ciphertext made under the key and IV that evpBytesToKey derives
SaltedEncrypt(plaintext, secret, salt) ==
    LET kv == evpBytesToKeyBytes(secret, salt)
    IN  Base64Encode(SALTED \o salt
                     \o CbcEncrypt(kv.key, kv.iv, Pkcs7Pad(Utf8Encode(plaintext))))

\* the longest plaintext, in code points
MaxPlain == 17

\* the beginnings of "https://cdn/é.m3u8"
Plaintexts ==
    LET text == <<104, 116, 116, 112, 115, 58, 47, 47, 99, 100, 110, 47, 233,
                  46, 109, 51, 117, 56>>
    IN  {SubSeq(text, 1, n) :
            n \in 0..(IF MaxPlain < Len(text) THEN MaxPlain ELSE Len(text))}

\* "k1" and "clé"
Secrets == {<<107, 49>>, <<99, 108, 233>>}

Salts == {<<0, 0, 0, 0, 0, 0, 0, 0>>,
          <<1, 2, 3, 4, 5, 6, 7, 8>>,
          <<255, 254, 83, 97, 108, 116, 0, 128>>}

InitCrypt ==
    /\ ResolverIdle
    /\ CacheIdle
    /\ MatchIdle
    /\ cryptIn \in {Some([plaintext |-> p, secret |-> s, salt |-> t, password |-> w]) :
                       p \in Plaintexts, s \in Secrets, t \in Salts, w \in Secrets}
    /\ cryptOut = NoValue
    /\ nHtml = <<>>
    /\ nOut = NoValue
    /\ nPc = "idle"

\* decryptOpenSSL is handed the framed ciphertext and a password
DecryptOpenSSLCall ==
    /\ cryptIn.some
    /\ cryptOut = NoValue
    /\ cryptOut' = Some(decryptOpenSSLBytes(
                            SaltedEncrypt(cryptIn.val.plaintext, cryptIn.val.secret,
                                          cryptIn.val.salt),
                            cryptIn.val.password))
    /\ UNCHANGED <<cryptIn, resolverVars, other, cacheVars, matchVars, nonceVars>>

SpecCrypt == InitCrypt /\ [][DecryptOpenSSLCall]_vars

(***************************************************************************)
(* Properties                                                              *)
(***************************************************************************)

Kinds(reqs) == {reqs[i].kind : i \in 1..Len(reqs)}

HasPayload == data.some /\ data.val.tag = "json"

Payload == data.val.body

HasPage == page.some /\ page.val.tag = "ok"

Returned == pc = "done" /\ outcome = "returned"

EmptyResult == [sources |-> <<>>, tracks |-> <<>>]

\* C1: whatever the embed URL and the upstream do, MegaCloud.extract returns
\* a result and no exception leaves the call.
C1_NeverRaises == outcome # "threw"

PlainSourcePresent ==
    /\ HasPayload
    /\ \/ Payload.sources.tag = "array" /\ Payload.sources.items # <<>>
       \/ Payload.sources.tag = "string" /\ IncludesM3u8(Payload.sources.str)

SomeStrategySucceeded ==
    \E i \in 1..Len(strategies) : strategies[i].state = "succeeded"

\* C3: the sources of a result are non-empty exactly when a plain source was
\* present in the payload or some decryption strategy succeeded, and empty
\* otherwise.
C3_SourcesEmptyIff ==
    Returned =>
        (result.val.sources # <<>> <=> (PlainSourcePresent \/ SomeStrategySucceeded))

\* C4: when the payload's sources are a list, whatever the encrypted flag,
\* the resolution fetches no key document and invokes no decryption strategy.
C4_ListIsPassthrough ==
    (HasPayload /\ Payload.sources.tag = "array") =>
        /\ Kinds(requests) \cap {"key", "oracle"} = {}
        /\ strategies = <<>>

OpaqueString ==
    /\ HasPayload
    /\ Payload.sources.tag = "string"
    /\ Payload.sources.str # ""
    /\ ~IncludesM3u8(Payload.sources.str)

NoCandidateSecret ==
    ~keyDocument.vidstr.some /\ ~keyDocument.rabbit.some
    /\ ~keyDocument.rabbitstreamKey.some

\* C5: when the payload's sources are a string (an opaque one, as in the
\* scenario the claim comes with) and the key document holds none of the
\* candidate secret fields, the result has no sources and its tracks are the
\* payload's captions and subtitles.
C5_NoSecretNoSources ==
    (pc = "done" /\ OpaqueString /\ NoCandidateSecret) =>
        /\ outcome = "returned"
        /\ result.val.sources = <<>>
        /\ result.val.tracks = FilterTracks(Payload)

\* C6: an opaque string payload is decrypted whether the encrypted flag is
\* true or absent: the resolution goes for the key, and never hands the
\* string out as a source.
C6_StringIsDecrypted ==
    (OpaqueString /\ Payload.encrypted \in {NoValue, Some(TRUE)}) =>
        /\ "key" \in Kinds(requests)
        /\ Returned =>
              \A i \in 1..Len(result.val.sources) :
                  result.val.sources[i].file # Payload.sources.str

\* the maximal runs of alphanumeric characters of s that are n long
AlnumRuns(s, n) ==
    {i \in 1..Len(s) :
        /\ i + n - 1 <= Len(s)
        /\ \A k \in i..(i + n - 1) : s[k] \in Alnum
        /\ (i = 1 \/ s[i - 1] \notin Alnum)
        /\ (i + n - 1 = Len(s) \/ s[i + n] \notin Alnum)}

\* C7: a page holding an alphanumeric run of exactly 48 characters gives
\* that run (the first one) as the nonce.
C7_Run48IsNonce ==
    (nPc = "done" /\ AlnumRuns(nHtml, NONCE_LEN) # {}) =>
        nOut = Some(SubSeq(nHtml, Min(AlnumRuns(nHtml, NONCE_LEN)),
                           Min(AlnumRuns(nHtml, NONCE_LEN)) + NONCE_LEN - 1))

\* C8: a page without a 48-character run but with three runs of exactly 16
\* characters, wherever they lie, gives the concatenation of three of its
\* 16-character runs, in document order, as the nonce.
C8_ThreeSegmentsAreNonce ==
    LET R == AlnumRuns(nHtml, SEGMENT_LEN)
        Seg(i) == SubSeq(nHtml, i, i + SEGMENT_LEN - 1)
    IN  (nPc = "done" /\ AlnumRuns(nHtml, NONCE_LEN) = {} /\ Cardinality(R) >= 3) =>
            \E i, j, k \in R :
                i < j /\ j < k /\ nOut = Some(Seg(i) \o Seg(j) \o Seg(k))

\* C9: a page that matches neither nonce pattern ends the resolution with
\* an empty result, and getSources is never requested.
C9_NoNonceNoSourcesFetch ==
    (HasPage /\ ~extractNonce(page.val.body).some) =>
        /\ "getSources" \notin Kinds(requests)
        /\ pc = "done" => (outcome = "returned" /\ result.val = EmptyResult)

\* C10: a page without a data-id attribute ends the resolution with an
\* empty result; no id is taken from elsewhere and getSources is never
\* requested.
C10_NoDataIdNoSourcesFetch ==
    (HasPage /\ ~fileIdMatch(page.val.body).some) =>
        /\ "getSources" \notin Kinds(requests)
        /\ pc = "done" => (outcome = "returned" /\ result.val = EmptyResult)

\* C11: the normalizer maps the payload's sources element-wise: a list gives
\* one source per element, in order, with the element's file and with the
\* type "hls" where the element has none; a single URL string gives exactly
\* one source; an absent field gives no source.
C11_SourcesElementwise ==
    Returned /\ HasPayload =>
        CASE Payload.sources.tag = "array" ->
                /\ Len(result.val.sources) = Len(Payload.sources.items)
                /\ \A i \in 1..Len(Payload.sources.items) :
                      /\ result.val.sources[i].file = Payload.sources.items[i].file
                      /\ result.val.sources[i].type =
                            IF Payload.sources.items[i].type.some
                            THEN Payload.sources.items[i].type
                            ELSE Some("hls")
          [] Payload.sources.tag = "string" /\ IncludesM3u8(Payload.sources.str) ->
                result.val.sources = <<Src(Payload.sources.str, Some("hls"))>>
          [] Payload.sources.tag = "absent" -> result.val.sources = <<>>
          [] OTHER -> TRUE

\* C12: the tracks of every result are exactly the payload's tracks of kind
\* "captions" or "subtitles", in the payload's order; no track of another
\* kind is in a result.
C12_OnlyCaptionTracks ==
    Returned /\ "tracks" \in DOMAIN result.val =>
        /\ \A i \in 1..Len(result.val.tracks) : IsCaption(result.val.tracks[i])
        /\ HasPayload => result.val.tracks = FilterTracks(Payload)

\* C13: a resolution whose getSources call gave a payload ends normalized on
\* the passthrough and on the decrypting branch: a result is returned, its
\* tracks are the payload's filtered tracks, and when the key document was
\* asked for and no strategy succeeded its sources are empty.
C13_NormalizedOnBothBranches ==
    pc = "done" /\ HasPayload =>
        /\ Returned
        /\ "tracks" \in DOMAIN result.val
        /\ result.val.tracks = FilterTracks(Payload)
        /\ "key" \in Kinds(requests) /\ ~SomeStrategySucceeded =>
              result.val.sources = <<>>

\* C14: every resolution eventually terminates: a network call that is never
\* answered times out and counts as a failure, so extract returns.
C14_EventuallyReturns == <>(pc = "done")

\* what a finished call must have returned, given only its own url and the
\* responses it received itself
OwnResult(c) ==
    c.pc = "done" =>
        /\ c.embed = NewURL(c.url)
        /\ c.requests # <<>> => c.requests[1].href = c.embed.val.href
        /\ IF ~c.embed.some
           THEN c.result = IF impl = "live" THEN NoValue ELSE Some(CatchResult)
           ELSE IF ~(c.data.some /\ c.data.val.tag = "json")
           THEN c.result \in {NoValue, Some(EmptyResult)}
           ELSE LET d == c.data.val.body
                    s == c.result.val.sources
                IN  /\ c.result.some
                    /\ c.result.val.tracks = Normalized(<<>>, d).tracks
                    /\ IF "key" \in Kinds(c.requests)
                       THEN \/ s = <<>>
                            \/ /\ Len(s) = 1
                               /\ \E i \in 1..Len(c.strategies) :
                                     c.strategies[i].state = "succeeded"
                       ELSE s = IF impl = "v3" /\ d.sources.tag = "array"
                                THEN MapSourcesV3(d.sources.items)
                                ELSE PlainSources(d.sources)

C16_SecretFetchedOnce ==
    [][(other.some /\ other' = other /\ other.val.strategies # <<>>) =>
            ~(/\ Len(requests') = Len(requests) + 1
              /\ requests'[Len(requests')].kind = "key")]_vars

\* an entry for the key is in the cache in use and has not expired
EntryPresent(key) ==
    IF redis # "null"
    THEN redisStore[key].some /\ now < redisStore[key].val.expiresAt
    ELSE memoryCache[key].some /\ now <= memoryCache[key].val.expiresAt

\* the value of that entry
EntryValue(key) ==
    JsonParseValue(IF redis # "null" THEN redisStore[key].val.value
                   ELSE memoryCache[key].val.value)

\* C17: cacheFetch is compute-and-store-if-absent: with an unexpired entry
\* for the key it returns the entry's value and does not invoke the
\* producer; otherwise it invokes the producer exactly once, stores the
\* produced value under the key and returns it.
C17_ComputeAndStoreIfAbsent ==
    [][\A key \in CacheKeys :
          /\ call' # call
          /\ call'.val.op = "cacheFetch"
          /\ call'.val.key = key
          => IF EntryPresent(key)
             THEN /\ call'.val.fetcherCalls = 0
                  /\ call'.val.ret = EntryValue(key)
             ELSE /\ call'.val.fetcherCalls = 1
                  /\ EntryPresent(key)'
                  /\ EntryValue(key)' = call'.val.ret]_vars

\* C18: whenever Redis is not configured, has been disabled, or its
\* operation throws, cacheGet, cacheSet and cacheFetch are carried out
\* against the in-memory cache: the value is read from it, or stored into
\* it with its TTL.
C18_FallsBackToMemory ==
    [][/\ call' # call
       /\ redis = "null" \/ call'.val.throws
       => LET c == call'.val
              got == MemoryGet(memoryCache, c.key)
              stored == /\ memoryCache'[c.key].some
                        /\ memoryCache'[c.key].val.value = JsonStringify(c.ret)
                        /\ memoryCache'[c.key].val.expiresAt \in
                              {now + ttl : ttl \in CacheTtls}
          IN  CASE c.op = "cacheGet" -> c.ret = got.ret
                [] c.op = "cacheSet" -> stored
                [] c.op = "cacheFetch" ->
                      IF got.ret.some
                      THEN c.ret = got.ret /\ c.fetcherCalls = 0
                      ELSE stored]_vars

\* the results of the requested type, and whether one has a similar title
RelevantResults ==
    SelectSeq(matchIn.val.searchResults.results,
              LAMBDA m : m.type = matchIn.val.type)

SimilarTitle(m) ==
    isTitleSimilarEnough(m.title, ToLowerCase(matchIn.val.tmdbDetails.title))

\* a result meets the title-with-season or the title-with-year criterion
StrictMatch(m) ==
    /\ SimilarTitle(m)
    /\ \/ /\ matchIn.val.type # "MOVIE"
          /\ matchIn.val.tmdbDetails.number_of_seasons.some
          /\ m.seasons = matchIn.val.tmdbDetails.number_of_seasons
       \/ /\ matchIn.val.tmdbDetails.date.some
          /\ FlixYear(m) = Some(matchIn.val.tmdbDetails.date.val[1])

SourcesOfText(text) ==
    IF Truthy(FileUrlOf(text)) THEN SingleSource(FileUrlOf(text).val) ELSE <<>>

C21_SaltedFailurePassesOn ==
    /\ strategies # <<>> => outcome # "threw"
    /\ (/\ pc = "done"
        /\ strategies # <<>>
        /\ strategies[1].name = "salted"
        /\ BufferFrom(Payload.sources).head # "Salted__")
       => /\ strategies[1].state = "failed"
          /\ Len(strategies) >= 2
          /\ strategies[2].name # "salted"

LocalStrategies == {"salted", "nonce-derived"}

\* C22: for a string payload the resolver decrypts locally first, calls the
\* remote oracle only after local decryption has failed, and takes the string
\* itself as the source URL only after both have failed and only when it
\* contains ".m3u8"; a string without the marker is never handed out as a
\* source file.
C22_LocalThenOracleThenPassthrough ==
    HasPayload /\ Payload.sources.tag = "string" =>
        /\ \A i \in 1..Len(strategies) :
              strategies[i].name = "oracle" =>
                  /\ i > 1
                  /\ \A j \in 1..(i - 1) :
                        /\ strategies[j].name \in LocalStrategies
                        /\ strategies[j].state = "failed"
        /\ Returned =>
              \A i \in 1..Len(result.val.sources) :
                  result.val.sources[i].file = Payload.sources.str =>
                      /\ IncludesM3u8(Payload.sources.str)
                      /\ \E j \in 1..Len(strategies) :
                            strategies[j].name \in LocalStrategies
                      /\ \E j \in 1..Len(strategies) : strategies[j].name = "oracle"
                      /\ ~SomeStrategySucceeded

\* C23: round trip of the salted scheme: for every secret, 8-byte salt and
\* plaintext, the plaintext encrypted under the key and IV that evpBytesToKey
\* derives from (secret, salt) and framed as base64("Salted__" + salt +
\* ciphertext) is returned unchanged by decryptOpenSSL under the same secret.
C23_RoundTrip ==
    cryptOut.some /\ cryptIn.val.password = cryptIn.val.secret =>
        cryptOut.val = Some(cryptIn.val.plaintext)

\* a plaintext of more than one block with a two-byte character came back
C23_Witness ==
    /\ cryptOut.some
    /\ cryptIn.val.password = cryptIn.val.secret
    /\ Len(Utf8Encode(cryptIn.val.plaintext)) > BLOCK_LEN
    /\ Len(Utf8Encode(cryptIn.val.plaintext)) > Len(cryptIn.val.plaintext)
    /\ cryptOut.val = Some(cryptIn.val.plaintext)

HasKeyDocument == keyData.some /\ keyData.val.tag = "json"

\* C24: the secret is the first present of the key document's candidate
\* fields, probed in the order vidstr, rabbit, rabbitstream.key: once the key
\* document has arrived a decryption strategy runs whenever one of the three
\* is present, it runs under that first present one, and the secret is
\* missing only when all three are absent.
C24_FirstPresentCandidate ==
    HasKeyDocument =>
        /\ strategies # <<>> <=> ~NoCandidateSecret
        /\ strategies # <<>> /\ strategies[1].name = "salted" =>
              strategies[1].state =
                  Strategy("salted",
                           decryptOpenSSL(BufferFrom(Payload.sources),
                                          Password(keyDocument).val).some).state

\* how far a resolution has come: before the page request, waiting for the
\* page, for the payload, for the key document, for the oracle, finished
StageRank(at) ==
    CASE at = "start" -> 0
      [] at = "awaitPage" -> 1
      [] at = "awaitSources" -> 2
      [] at = "awaitKey" -> 3
      [] at = "awaitOracle" -> 4
      [] at = "done" -> 5

RequestsOfKind(kind) == {i \in 1..Len(requests) : requests[i].kind = kind}

\* C25: within one resolution no stage is retried: every step moves the
\* resolution forward along its stages, and the page, the getSources
\* endpoint and the key document are each requested at most once, whatever
\* fails.
C25_NoStageRetried ==
    /\ [](\A kind \in {"page", "getSources", "key"} :
             Cardinality(RequestsOfKind(kind)) <= 1)
    /\ [][StageRank(pc') > StageRank(pc)]_vars

\* a resolution that went through every fetch once and ended on a failed
\* key fetch
C25_Witness ==
    /\ pc = "done"
    /\ keyData = Some([tag |-> "error"])
    /\ \A kind \in {"page", "getSources", "key"} :
          Cardinality(RequestsOfKind(kind)) = 1

\* the oracle call failed on the network, or its text holds no "file":"<url>"
OracleFailed ==
    /\ oracleData.some
    /\ IF oracleData.val.tag = "error" THEN TRUE
       ELSE ~Truthy(oracleData.val.file)

\* C26: when the oracle call fails on the network or its response holds no
\* "file":"<url>" fragment, the oracle strategy counts as failed: a result is
\* returned and no exception leaves the call, no source comes from that
\* response (the sources are empty unless another strategy succeeded), and
\* the tracks are the payload's captions and subtitles.
C26_OracleFailureIsStrategyFailure ==
    OracleFailed =>
        /\ Returned
        /\ strategies[Len(strategies)] = Strategy("oracle", FALSE)
        /\ ~SomeStrategySucceeded => result.val.sources = <<>>
        /\ result.val.tracks = FilterTracks(Payload)

\* the oracle answered without a file and the result has no source but the
\* payload's two caption tracks
C26_Witness ==
    /\ oracleData = Some([tag |-> "text", file |-> NoValue])
    /\ Returned
    /\ result.val.sources = <<>>
    /\ Len(result.val.tracks) = 2
    /\ Len(Payload.tracks.val) = 3

\* C27: every request a resolution sends (embed page, getSources, key
\* document, oracle) is a GET that carries the browser User-Agent and a
\* Referer that is the embed URL or its origin (MAIN_URL, for every embed
\* URL of the model).
C27_EveryRequestCarriesHeaders ==
    \A i \in 1..Len(requests) :
        /\ requests[i].method = "GET"
        /\ requests[i].userAgent = Some(USER_AGENT)
        /\ requests[i].referer \in {Some(embed.val.href), Some(MAIN_URL)}

\* the plaintext the local decryption of the payload's string gave
DecryptedText ==
    IF impl = "v3"
    THEN decryptOpenSSL(Base64Decode(Payload.sources.str), Password(keyDocument).val)
    ELSE decryptLocally(BufferFrom(Payload.sources), nonce.val,
                        keyDocument.vidstr.val).text

LocallyDecrypted ==
    /\ Returned
    /\ \E i \in 1..Len(strategies) :
          strategies[i].name \in LocalStrategies /\ strategies[i].state = "succeeded"

\* C28: a successfully decrypted plaintext is accepted in both forms: a plain
\* URL string gives exactly one source with that URL, and a JSON-encoded list
\* gives one source per element, in the list's order, with the element's file.
C28_UrlStringOrJsonList ==
    LocallyDecrypted =>
        LET parsed == JsonParse(DecryptedText.val)
            s == result.val.sources
        IN  CASE parsed.tag = "throws" ->
                    Len(s) = 1 /\ s[1].file = DecryptedText.val
              [] parsed.tag = "array" ->
                    /\ Len(s) = Len(parsed.items)
                    /\ \A i \in 1..Len(parsed.items) : s[i].file = parsed.items[i].file
              [] OTHER -> TRUE

\* a cache call made with Redis disabled was carried out on memoryCache
ServedByMemory ==
    LET c == call'.val
        got == MemoryGet(memoryCache, c.key)
        stored == /\ memoryCache'[c.key].some
                  /\ memoryCache'[c.key].val.value = JsonStringify(c.ret)
    IN  /\ redisStore' = redisStore
        /\ ~c.throws
        /\ CASE c.op = "cacheGet" -> c.ret = got.ret
             [] c.op = "cacheSet" -> stored
             [] c.op = "cacheFetch" ->
                   IF got.ret.some THEN c.ret = got.ret /\ c.fetcherCalls = 0
                   ELSE stored /\ c.fetcherCalls = 1

\* C29: Redis is disabled one way and by a threshold: the error counter goes
\* up by one per error event and back to 0 on a connect event, the client is
\* set to null exactly when the counter reaches MAX_REDIS_CONNECTION_ATTEMPTS,
\* a null client is never set again, and from then on cacheGet, cacheSet and
\* cacheFetch are served by the in-memory cache.
C29_RedisDisabledOneWay ==
    /\ [](redis # "null" => redisConnectionAttempts < MAX_REDIS_CONNECTION_ATTEMPTS)
    /\ [][/\ redisConnectionAttempts' # redisConnectionAttempts =>
                redisConnectionAttempts' \in {redisConnectionAttempts + 1, 0}
          /\ (redis # "null" /\ redis' = "null") <=>
                (/\ redisConnectionAttempts' = redisConnectionAttempts + 1
                 /\ redisConnectionAttempts' = MAX_REDIS_CONNECTION_ATTEMPTS)
          /\ redis = "null" => redis' = "null"
          /\ redis = "null" /\ call' # call => ServedByMemory]_vars

\* Redis was disabled by its third error and a later cacheFetch computed its
\* value and kept it in the in-memory cache
C29_Witness ==
    /\ redis = "null"
    /\ redisConnectionAttempts = MAX_REDIS_CONNECTION_ATTEMPTS
    /\ redisStore = NoEntries
    /\ call.some
    /\ call.val.op = "cacheFetch" /\ ~call.val.throws /\ call.val.fetcherCalls = 1
    /\ memoryCache[call.val.key].some

====
